---- MODULE Spec2Model ----
(***************************************************************************)
(* Model of netrd/reconstruction/correlation_spanning_tree.py:             *)
(* CorrelationSpanningTree.fit(TS, distance).                              *)
(*                                                                         *)
(* Floating point numbers are modelled in fixed point: the integer x       *)
(* stands for the real x / Scale, and roundings go down.  NaN is a         *)
(* distinguished value that every arithmetic operation propagates.         *)
(* An ndarray is a record [shape, a]: a 2-d array has its rows in a, a     *)
(* 0-d array (a numpy scalar) has its one value in a[1][1].                *)
(***************************************************************************)
EXTENDS Integers, Sequences, FiniteSets

VARIABLES results, TS, distance, outcome, ret, csgraph, MST, corr, dist

vars == <<results, TS, distance, outcome, ret, csgraph, MST, corr, dist>>

fitVars == <<results, TS, distance, outcome, ret>>
mstVars == <<csgraph, MST>>
distVars == <<corr, dist>>

(* ----------------------------- bounds ---------------------------------- *)

\* fixed-point resolution: the integer Scale stands for 1.0
Scale == 10

\* the largest weight of the distance matrices given to the tree builder alone
MaxW == 3

\* the orders of the distance matrices given to the tree builder alone
MatrixSizes == {1, 2, 3, 4}

\* an observation is one of these values
SampleValues == {0 - 1, 0, 1}

\* numbers of rows (sensors) and of columns (observations) of a 2-d TS; a TS
\* of no row is left out, what becomes of it being decided inside the libraries
RowCounts == {1, 2, 3, 4}
ColumnCounts == {1, 3}

\* the rows of the arrays given to a sequence of calls on one instance
FewRows == {<<1, 0 - 1, 0>>, <<1, 0, 0 - 1>>, <<0, 0, 0>>}
FewRowCounts == {1, 2, 3}

\* the values given for the distance option
DistanceOptions == {"root_inv", "inv_square", "euclidean"}

(* --------------------------- numbers ----------------------------------- *)

NaN == 0 - (4 * Scale)

IsNaN(x) == x = NaN

Sign(x) == IF x < 0 THEN 0 - 1 ELSE IF x > 0 THEN 1 ELSE 0

\* floor of the square root of n, for 0 <= n <= (2 * Scale)^2
ISqrt(n) == CHOOSE r \in 0..(2 * Scale) : r * r <= n /\ (r + 1) * (r + 1) > n

RECURSIVE SumSeq(_)
SumSeq(s) == IF s = <<>> THEN 0 ELSE Head(s) + SumSeq(Tail(s))

(* ---------------------------- arrays ----------------------------------- *)

\* an ndarray: its shape and its rows (all of its values, for a 0-d array)
Array2D(rows, l) == [shape |-> <<Len(rows), l>>, a |-> rows]
Square(rows) == [shape |-> <<Len(rows), Len(rows)>>, a |-> rows]
Scalar(x) == [shape |-> <<>>, a |-> <<<<x>>>>]

\* the arguments of fit while fit has not been called
NoArray == [shape |-> <<>>, a |-> <<>>]

Ndim(A) == Len(A.shape)

\* the N of an N x N array
Order(A) == A.shape[1]

\* A[i][j] with numpy's indices, from 0
At(A, i, j) == A.a[i + 1][j + 1]

Nodes(n) == 0..(n - 1)

(* ------------------------- np.corrcoef --------------------------------- *)

\* row r minus its mean, times the number of columns
Centered(r) == [t \in 1..Len(r) |-> Len(r) * r[t] - SumSeq(r)]

Dot(x, y) == SumSeq([t \in 1..Len(x) |-> x[t] * y[t]])

\* the covariance of rows x and y up to the factor L^2 * (L - 1); with one
\* column the divisor L - 1 is 0 and every covariance is 0 * inf = NaN
Cov(x, y) == IF Len(x) < 2 THEN NaN ELSE Dot(Centered(x), Centered(y))

\* c[i][j] / stddev[i] / stddev[j], clipped into [-1, 1]
Pearson(x, y) ==
    LET cxy == Cov(x, y)
        cxx == Cov(x, x)
        cyy == Cov(y, y)
    IN  IF IsNaN(cxy) \/ cxx = 0 \/ cyy = 0 THEN NaN
        ELSE Sign(cxy) * ISqrt((cxy * cxy * Scale * Scale) \div (cxx * cyy))

\* np.corrcoef(TS) of a 2-d TS of N >= 1 rows: an N x N array, except that
\* one row gives the 0-d array c / c
Corrcoef(T) ==
    LET n == Len(T.a)
    IN  IF n = 1
        THEN LET c == Cov(T.a[1], T.a[1])
             IN  Scalar(IF IsNaN(c) \/ c = 0 THEN NaN ELSE Scale)
        ELSE Square([i \in 1..n |-> [j \in 1..n |-> Pearson(T.a[i], T.a[j])]])

(* ------------------------ distance matrix ------------------------------ *)

\* a slip of sign: np.sqrt(2 * (1 + C))
RootInvOfSum(c) == IF IsNaN(c) THEN NaN ELSE ISqrt(2 * (Scale + c) * Scale)

\* np.sqrt(2 * (1 - C))
RootInv(c) == IF IsNaN(c) THEN NaN ELSE ISqrt(2 * (Scale - c) * Scale)

\* 1 - np.square(C)
InvSquare(c) == IF IsNaN(c) THEN NaN ELSE (Scale * Scale - c * c) \div Scale

Distance(c, option) == IF option = "root_inv" THEN RootInv(c) ELSE InvSquare(c)

DistanceMatrix(C, option) ==
    [shape |-> C.shape,
     a |-> [i \in 1..Len(C.a) |->
               [j \in 1..Len(C.a[i]) |-> Distance(C.a[i][j], option)]]]

(* ------------- scipy.sparse.csgraph.minimum_spanning_tree --------------- *)

\* a dense csgraph has no edge where the entry is 0 or not-a-number
IsNull(w) == w = 0 \/ IsNaN(w)

\* the entries <<row, column, weight>> the compressed sparse rows keep: both
\* (i, j) and (j, i)
Entries(D) ==
    {<<p[1], p[2], At(D, p[1], p[2])>> :
        p \in {q \in Nodes(Order(D)) \X Nodes(Order(D)) : ~IsNull(At(D, q[1], q[2]))}}

\* the entries tried in the order of the rows, their weights never sorted
BeforeUnsorted(e, f) == e[1] < f[1] \/ (e[1] = f[1] /\ e[2] < f[2])

\* the order in which the entries are tried: np.argsort of the stored weights,
\* equal weights in the order of the rows (the sort is stable on the at most
\* 16 entries of a matrix of 4 nodes)
Before(e, f) ==
    \/ e[3] < f[3]
    \/ /\ e[3] = f[3]
       /\ (e[1] < f[1] \/ (e[1] = f[1] /\ e[2] < f[2]))

First(todo) == CHOOSE e \in todo : \A f \in todo \ {e} : Before(e, f)

\* the union of the components of the two ends of entry e
Union(comp, e) ==
    [v \in DOMAIN comp |-> IF comp[v] = comp[e[2]] THEN comp[e[1]] ELSE comp[v]]

\* _min_spanning_tree: an entry is kept when its ends are in two components,
\* and zeroed (then eliminated) otherwise
RECURSIVE Kruskal(_, _, _)
Kruskal(todo, comp, kept) ==
    IF todo = {} THEN kept
    ELSE LET e == First(todo)
         IN  IF comp[e[1]] # comp[e[2]]
             THEN Kruskal(todo \ {e}, Union(comp, e), kept \cup {e})
             ELSE Kruskal(todo \ {e}, comp, kept)

\* the sparse matrix returned for the 2-d array D: its order and its entries
MinimumSpanningTree(D) ==
    [n |-> Order(D),
     entries |-> Kruskal(Entries(D), [v \in Nodes(Order(D)) |-> v], {})]

(* ------------------- nx.from_scipy_sparse_matrix ------------------------ *)

Min(a, b) == IF a <= b THEN a ELSE b
Max(a, b) == IF a >= b THEN a ELSE b

\* an undirected graph: edge {i, j} of weight w is <<min, max, w>>
FromSparse(M) ==
    [nodes |-> Nodes(M.n),
     edges |-> {<<Min(e[1], e[2]), Max(e[1], e[2]), e[3]>> : e \in M.entries}]

(* ------------------------------ fit ------------------------------------- *)

\* d.setdefault(key, value): a key once set keeps its value
PutIfAbsent(d, key, value) ==
    [k \in DOMAIN d \cup {key} |-> IF k \in DOMAIN d THEN d[k] ELSE value]

\* d[key] = value
Put(d, key, value) ==
    [k \in DOMAIN d \cup {key} |-> IF k = key THEN value ELSE d[k]]

Has(d, key) == key \in DOMAIN d

EmptyDict == [k \in {} |-> 0]

\* D of lines 106 to 110
DistanceOf(T, option) == DistanceMatrix(Corrcoef(T), option)

\* G of lines 114 to 116, for a 2-d distance matrix
TreeGraph(D) == FromSparse(MinimumSpanningTree(D))

Fit(T, option) ==
    /\ TS' = T
    /\ distance' = option
    /\ IF Ndim(T) # 2
       THEN \* N, L = TS.shape
            /\ outcome' = "ValueError at 104"
            /\ UNCHANGED <<results, ret>>
       ELSE \E D \in {DistanceOf(T, option)} :
            IF Ndim(D) # 2
            THEN \* minimum_spanning_tree: graph should have two dimensions
                 /\ results' = Put(results, "distance_matrix", D)
                 /\ outcome' = "ValueError at 114"
                 /\ UNCHANGED ret
            ELSE \E G \in {TreeGraph(D)} :
                 /\ results' = Put(Put(results, "distance_matrix", D), "graph", G)
                 /\ ret' = <<G>>
                 /\ outcome' = "returned"
    /\ UNCHANGED <<mstVars, distVars>>

(* ----------------------------- inputs ----------------------------------- *)

\* rows of l observations of mean 0: their correlations are exact in floating
\* point, as they are in fixed point
SampleRows(l) == {r \in [1..l -> SampleValues] : SumSeq(r) = 0}

Arrays2D ==
    {Array2D(x[2], x[1]) :
        x \in UNION {{l} \X [1..n -> SampleRows(l)] : n \in RowCounts, l \in ColumnCounts}}

\* a 1-d and a 3-d array
ArraysNot2D ==
    {[shape |-> <<3>>, a |-> <<<<1, 0 - 1, 0>>>>],
     [shape |-> <<1, 1, 3>>, a |-> <<<<1, 0 - 1, 0>>>>]}

TSInputs == Arrays2D \cup ArraysNot2D

FewArrays ==
    {Array2D(rows, 3) : rows \in UNION {[1..n -> FewRows] : n \in FewRowCounts}}
        \cup {[shape |-> <<3>>, a |-> <<<<1, 0 - 1, 0>>>>]}

(* ------------------ one instance, any sequence of calls ----------------- *)

\* a new CorrelationSpanningTree: no call to fit yet
Init ==
    /\ results = EmptyDict
    /\ TS = NoArray
    /\ distance = "root_inv"
    /\ outcome = "no call"
    /\ ret = <<>>
    /\ csgraph = Square(<<>>)
    /\ MST = <<>>
    /\ corr = <<>>
    /\ dist = <<>>

Next == \E T \in FewArrays, option \in DistanceOptions : Fit(T, option)

Spec == Init /\ [][Next]_vars

(* ------------------- the first call on a new instance ------------------- *)

InitFirstCall ==
    /\ results = EmptyDict
    /\ TS \in TSInputs
    /\ distance \in DistanceOptions
    /\ outcome = "no call"
    /\ ret = <<>>
    /\ csgraph = Square(<<>>)
    /\ MST = <<>>
    /\ corr = <<>>
    /\ dist = <<>>

FirstCall == outcome = "no call" /\ Fit(TS, distance)

SpecFirstCall == InitFirstCall /\ [][FirstCall]_vars

(* --------------------- the tree builder on its own ---------------------- *)

Pairs(n) == {p \in Nodes(n) \X Nodes(n) : p[1] < p[2]}

\* the symmetric matrix of zero diagonal whose entry for the pair p is w[p]
Symmetric(n, w) ==
    Square([i \in 1..n |-> [j \in 1..n |->
        IF i = j THEN 0 ELSE w[<<Min(i, j) - 1, Max(i, j) - 1>>]]])

\* all entries finite: symmetric, zero diagonal, off the diagonal 0..MaxW
FiniteMatrices ==
    UNION {{Symmetric(n, w) : w \in [Pairs(n) -> 0..MaxW]} : n \in MatrixSizes}

InitTree ==
    /\ results = EmptyDict
    /\ TS = NoArray
    /\ distance = "root_inv"
    /\ outcome = "no call"
    /\ ret = <<>>
    /\ csgraph \in FiniteMatrices
    /\ MST = <<>>
    /\ corr = <<>>
    /\ dist = <<>>

\* line 114, MST = minimum_spanning_tree(D)
BuildTree ==
    /\ MST = <<>>
    /\ MST' = <<MinimumSpanningTree(csgraph)>>
    /\ UNCHANGED <<fitVars, csgraph, distVars>>

SpecTree == InitTree /\ [][BuildTree]_vars

(* ------------------- the distance formulas on their own ------------------ *)

Correlations == (0 - Scale)..Scale

InitDistance ==
    /\ results = EmptyDict
    /\ TS = NoArray
    /\ distance = "root_inv"
    /\ outcome = "no call"
    /\ ret = <<>>
    /\ csgraph = Square(<<>>)
    /\ MST = <<>>
    /\ corr \in {c \in Correlations \X Correlations : c[1] < c[2]}
    /\ dist = <<>>

\* lines 108 to 110 on the two correlations
Transform(option) ==
    /\ dist = <<>>
    /\ dist' = <<option, Distance(corr[1], option), Distance(corr[2], option)>>
    /\ UNCHANGED <<fitVars, mstVars, corr>>

NextDistance == \E option \in DistanceOptions : Transform(option)

SpecDistance == InitDistance /\ [][NextDistance]_vars

(* ------------------------- graphs and trees ----------------------------- *)

RECURSIVE Weight(_)
Weight(E) ==
    IF E = {} THEN 0
    ELSE LET e == CHOOSE x \in E : TRUE IN e[3] + Weight(E \ {e})

\* the component of every node of 0..n-1 under the edges E
RECURSIVE Components(_, _)
Components(E, n) ==
    IF E = {} THEN [v \in Nodes(n) |-> v]
    ELSE LET e == CHOOSE x \in E : TRUE IN Union(Components(E \ {e}, n), e)

NumComponents(E, n) == Cardinality({Components(E, n)[v] : v \in Nodes(n)})

SameComponents(E, F, n) ==
    \A u, v \in Nodes(n) :
        (Components(E, n)[u] = Components(E, n)[v])
            <=> (Components(F, n)[u] = Components(F, n)[v])

NoParallelEdges(E) == \A e, f \in E : (e[1] = f[1] /\ e[2] = f[2]) => e = f

IsForest(E, n) == NoParallelEdges(E) /\ Cardinality(E) = n - NumComponents(E, n)

\* the pairs that are edges when only not-a-number means no edge
UsableEdges(D) ==
    {<<p[1], p[2], At(D, p[1], p[2])>> :
        p \in {q \in Pairs(Order(D)) : ~IsNaN(At(D, q[1], q[2]))}}

\* the pairs that are edges for the builder: neither not-a-number nor zero
KeptEdges(D) == {e \in UsableEdges(D) : e[3] # 0}

\* the forests over the edges A that connect whatever A connects
SpanningForests(A, n) ==
    {S \in SUBSET A : IsForest(S, n) /\ SameComponents(S, A, n)}

MinForestWeight(A, n) ==
    CHOOSE w \in {Weight(S) : S \in SpanningForests(A, n)} :
        \A S \in SpanningForests(A, n) : w <= Weight(S)

IsMinimumForest(E, A, n) ==
    /\ E \subseteq A
    /\ IsForest(E, n)
    /\ SameComponents(E, A, n)
    /\ Weight(E) = MinForestWeight(A, n)

(* the rule of growth: start from node 0; take the unvisited node of least
   connecting weight, the lowest such node, by its edge to the lowest tree
   member among those of that weight; when no edge leaves the tree, restart
   from the lowest unvisited node *)
Outside(e, tree) == IF e[1] \in tree THEN e[2] ELSE e[1]
Inside(e, tree) == IF e[1] \in tree THEN e[1] ELSE e[2]

RuleBefore(e, f, tree) ==
    \/ e[3] < f[3]
    \/ /\ e[3] = f[3]
       /\ \/ Outside(e, tree) < Outside(f, tree)
          \/ /\ Outside(e, tree) = Outside(f, tree)
             /\ Inside(e, tree) < Inside(f, tree)

RECURSIVE Grow(_, _, _, _)
Grow(A, n, tree, edges) ==
    IF tree = Nodes(n) THEN edges
    ELSE LET cross == {e \in A : (e[1] \in tree) # (e[2] \in tree)}
         IN  IF cross = {}
             THEN Grow(A, n,
                       tree \cup {CHOOSE v \in Nodes(n) \ tree :
                                     \A u \in Nodes(n) \ tree : v <= u},
                       edges)
             ELSE LET e == CHOOSE x \in cross :
                               \A f \in cross \ {x} : RuleBefore(x, f, tree)
                  IN  Grow(A, n, tree \cup {Outside(e, tree)}, edges \cup {e})

GrownByRule(A, n) == IF n = 0 THEN {} ELSE Grow(A, n, {0}, {})

(* ------------------------------ claims ---------------------------------- *)

Called == outcome # "no call"
Raised == outcome \in {"ValueError at 104", "ValueError at 114"}

Rows == Len(TS.a)
Columns == TS.shape[2]
ZeroVariance(r) == \A t \in 1..Len(r) : r[t] = r[1]

\* the edges of the tree just built
Built == FromSparse(MST[1]).edges

\* C1: for every finite distance matrix (zero entries off the diagonal
\* allowed) the tree builder yields N - 1 edges that are acyclic, connect all
\* N nodes and weigh as little as any spanning tree of the complete graph
C1_MinimumSpanningTree ==
    MST # <<>> =>
        /\ Cardinality(Built) = Order(csgraph) - 1
        /\ IsForest(Built, Order(csgraph))
        /\ NumComponents(Built, Order(csgraph)) = 1
        /\ Weight(Built) = MinForestWeight(UsableEdges(csgraph), Order(csgraph))

\* C2: identical rows i and j (of non-zero variance) have D[i][j] = 0; with
\* 3 rows of which rows 0 and 1 are equal and row 2 is correlated with them
\* neither perfectly nor undefinedly, fit returns a graph of 3 nodes and 2
\* edges, one of them the edge (0, 1) of weight 0
C2_ZeroEdgeOfIdenticalRows ==
    (Called /\ Ndim(TS) = 2 /\ distance \in {"root_inv", "inv_square"}) =>
        /\ \A p \in Pairs(Rows) :
              (TS.a[p[1] + 1] = TS.a[p[2] + 1] /\ ~ZeroVariance(TS.a[p[1] + 1]))
                  => At(results["distance_matrix"], p[1], p[2]) = 0
        /\ IF /\ Rows = 3
              /\ TS.a[1] = TS.a[2]
              /\ Pearson(TS.a[1], TS.a[3]) \notin {NaN, Scale, 0 - Scale}
           THEN /\ outcome = "returned"
                /\ ret[1].nodes = Nodes(3)
                /\ Cardinality(ret[1].edges) = 2
                /\ <<0, 1, 0>> \in ret[1].edges
           ELSE TRUE

\* C3: a call whose distance option is neither 'root_inv' nor 'inv_square'
\* is rejected: it raises, no distance matrix is computed or stored, and no
\* graph is returned or stored; stated for the TS of 2 rows and 2 columns or
\* more, which nothing else could reject
C3_UnknownDistanceRejected ==
    (/\ Called
     /\ distance \notin {"root_inv", "inv_square"}
     /\ IF Ndim(TS) = 2 THEN Rows >= 2 /\ Columns >= 2 ELSE FALSE) =>
        Raised /\ results = EmptyDict /\ ret = <<>>

\* C4: a TS that is not 2-d, or has fewer than 2 columns, makes fit raise
\* before anything is computed: nothing is written to the store; stated for
\* the TS that are not 2-d and the 2-d TS of 2 rows or more
C4_BadShapeRejected ==
    (Called /\ IF Ndim(TS) = 2 THEN Rows >= 2 /\ Columns < 2 ELSE TRUE) =>
        Raised /\ results = EmptyDict /\ ret = <<>>

\* C5: with a row k of zero variance (in a 2-d TS of 2 rows and 2 columns or
\* more) fit
\* returns; the correlations and distances of row k are all not-a-number,
\* node k has no edge, 3 rows do not give a tree of 2 edges, and the graph is
\* a minimum spanning forest of the usable (not not-a-number) entries
C5_ZeroVarianceRowIsolated ==
    (/\ Called
     /\ Ndim(TS) = 2
     /\ IF Ndim(TS) = 2 THEN Rows >= 2 /\ Columns >= 2 ELSE FALSE
     /\ \E k \in 1..Rows : ZeroVariance(TS.a[k])) =>
        IF outcome # "returned" THEN FALSE
        ELSE /\ \A k \in 1..Rows : ZeroVariance(TS.a[k]) =>
                  /\ \A j \in 1..Rows :
                        /\ IsNaN(Corrcoef(TS).a[k][j])
                        /\ IsNaN(Corrcoef(TS).a[j][k])
                        /\ IsNaN(results["distance_matrix"].a[k][j])
                        /\ IsNaN(results["distance_matrix"].a[j][k])
                  /\ \A e \in ret[1].edges : e[1] # k - 1 /\ e[2] # k - 1
             /\ Rows = 3 => Cardinality(ret[1].edges) # 2
             /\ IsMinimumForest(ret[1].edges,
                                UsableEdges(results["distance_matrix"]), Rows)

\* C6: no state survives between calls: after a call, what the store holds
\* is what the same call leaves in the store of a new instance, namely
\* nothing when the call raises on TS.shape and both entries when it
\* returns; stated for an instance that has returned a graph before
C6_NoStateSurvives ==
    (Called /\ ret # <<>> /\ outcome # "ValueError at 114") =>
        results =
            IF outcome # "returned" THEN EmptyDict
            ELSE [k \in {"distance_matrix", "graph"} |->
                     IF k = "graph" THEN ret[1] ELSE DistanceOf(TS, distance)]

\* C6, as amended: the store belongs to the instance and outlives the call,
\* but a call that returns leaves exactly two entries in it, both of this
\* call: the distance matrix of this TS and option, and the returned graph
C6_ReturnedCallOverwritesStore ==
    outcome = "returned" =>
        /\ DOMAIN results = {"distance_matrix", "graph"}
        /\ results["distance_matrix"] = DistanceOf(TS, distance)
        /\ results["graph"] = ret[1]
        /\ ret[1].nodes = Nodes(Rows)
        /\ \A e \in ret[1].edges : e[3] = At(DistanceOf(TS, distance), e[1], e[2])

\* C6, witness: a call has returned a graph with an edge
C6_Returned == outcome = "returned" /\ results["graph"].edges # {}

\* C7: among the spanning trees of least weight the one built is the one
\* grown by the rule; stated for the matrices of positive entries off the
\* diagonal, where every pair is an edge for the builder and for the rule
C7_TieBreakRule ==
    (MST # <<>> /\ KeptEdges(csgraph) = UsableEdges(csgraph)) =>
        Built = GrownByRule(UsableEdges(csgraph), Order(csgraph))

\* C7, as amended: over the pairs of non-zero finite distance the edges
\* built are a forest that connects the same nodes, with the same total
\* weight, as the forest grown by the rule, though not always the same edges
C7_SameWeightAsRule ==
    MST # <<>> =>
        /\ Built \subseteq KeptEdges(csgraph)
        /\ IsForest(Built, Order(csgraph))
        /\ SameComponents(Built,
                          GrownByRule(KeptEdges(csgraph), Order(csgraph)),
                          Order(csgraph))
        /\ Weight(Built) = Weight(GrownByRule(KeptEdges(csgraph), Order(csgraph)))

\* C7, witness: a tree is built that has the weight of the tree grown by the
\* rule without being that tree
C7_TiedTrees ==
    /\ MST # <<>>
    /\ KeptEdges(csgraph) = UsableEdges(csgraph)
    /\ Cardinality(Built) = Order(csgraph) - 1
    /\ Built # GrownByRule(UsableEdges(csgraph), Order(csgraph))

\* C8: for a 2-d TS of N >= 1 rows and 2 columns or more fit returns a graph
\* of the nodes 0..N-1 with at most N - 1 edges, no self-loop, no parallel
\* edges, every edge (i, j) weighing D[i][j] of the stored distance matrix
C8_GraphOfNNodes ==
    (/\ Called
     /\ Ndim(TS) = 2
     /\ IF Ndim(TS) = 2 THEN Rows >= 1 /\ Columns >= 2 ELSE FALSE) =>
        IF outcome # "returned" THEN FALSE
        ELSE /\ ret[1].nodes = Nodes(Rows)
             /\ Cardinality(ret[1].edges) <= Rows - 1
             /\ \A e \in ret[1].edges : e[1] # e[2]
             /\ NoParallelEdges(ret[1].edges)
             /\ \A e \in ret[1].edges :
                   e[3] = At(results["distance_matrix"], e[1], e[2])

\* C9: both formulas are decreasing over the whole of [-1, 1]: of two
\* correlations the larger never has the larger distance
C9_BothDecreasing ==
    (dist # <<>> /\ dist[1] \in {"root_inv", "inv_square"}) => dist[3] <= dist[2]

\* C9, as amended: root_inv is decreasing over the whole of [-1, 1];
\* inv_square is decreasing over [0, 1] only, and increasing over [-1, 0]
C9_DecreasingWhereItIs ==
    dist # <<>> =>
        /\ dist[1] = "root_inv" => dist[3] <= dist[2]
        /\ (dist[1] = "inv_square" /\ corr[1] >= 0) => dist[3] <= dist[2]
        /\ (dist[1] = "inv_square" /\ corr[2] <= 0) => dist[2] <= dist[3]

\* C9, witness: inv_square has given the larger of two non-negative
\* correlations the strictly smaller distance
C9_InvSquareDecreases ==
    /\ dist # <<>>
    /\ dist[1] = "inv_square"
    /\ corr[1] >= 0
    /\ dist[3] < dist[2]

\* C10: after any calls, the store holds neither entry or both, the graph
\* being the tree of the stored distance matrix and the graph fit returned
\* last
C10_StoreConsistent ==
    \/ ~Has(results, "graph") /\ ~Has(results, "distance_matrix")
    \/ /\ Has(results, "graph") /\ Has(results, "distance_matrix")
       /\ ret = <<results["graph"]>>
       /\ IF Ndim(results["distance_matrix"]) = 2
          THEN results["graph"] = TreeGraph(results["distance_matrix"])
          ELSE FALSE

====
